---- MODULE Spec2Model ----
(***************************************************************************)
(* Property signatures for objects including lambdas                       *)
(* (crossbeam/property_signatures/property_signatures.py).                 *)
(*                                                                         *)
(* The module is a library of pure functions.  Every function is an        *)
(* operator that computes what the Python code computes, including the     *)
(* exception it raises.  The state machine draws one call (a function name *)
(* and its arguments) in Init and applies the function in one action.      *)
(*                                                                         *)
(* Encoding of Python data:                                                *)
(*   object          [t, b, n, l]: t is the exact runtime type ("bool",    *)
(*                   "int", "list", or an unsupported one such as "str"),  *)
(*                   b/n/l the payload of that type                        *)
(*   Optional[bool]  "True", "False", "None"                               *)
(*   float           a reduced fraction <<numerator, denominator>>         *)
(*   outcome         [ok, err, val]: a returned value or a raised error    *)
(*   Value           [num_examples, num_free_variables, values]            *)
(***************************************************************************)
EXTENDS Integers, Sequences, FiniteSets, TLC

VARIABLES pc, call, args, ret

vars == <<pc, call, args, ret>>

-----------------------------------------------------------------------------
(* Outcomes of a Python call *)

Ok(v) == [ok |-> TRUE, err |-> "", val |-> v]

Err(e) == [ok |-> FALSE, err |-> e, val |-> <<>>]

NotImplementedError == "NotImplementedError: x has unhandled type"

AssertionError == "AssertionError"

ZeroDivisionError == "ZeroDivisionError"

IndexError == "IndexError"

\* r is evaluated, and F goes on with its value unless r raised
Bind(r, F(_)) == IF ~r.ok THEN r ELSE F(r.val)

\* a + b on two list-valued outcomes, a evaluated first
Cat2(a, b) == IF ~a.ok THEN a ELSE IF ~b.ok THEN b ELSE Ok(a.val \o b.val)

\* sum((f(i) for i in s), []): stops at the first element that raises
RECURSIVE SumOutcomes(_)
SumOutcomes(rs) ==
  IF rs = <<>> THEN Ok(<<>>)
  ELSE IF ~Head(rs).ok THEN Head(rs)
  ELSE Cat2(Head(rs), SumOutcomes(Tail(rs)))

-----------------------------------------------------------------------------
(* Python objects *)

PyBool(b) == [t |-> "bool", b |-> b, n |-> 0, l |-> <<>>]

PyInt(n) == [t |-> "int", b |-> FALSE, n |-> n, l |-> <<>>]

PyList(l) == [t |-> "list", b |-> FALSE, n |-> 0, l |-> l]

\* an object of a type the module does not handle (a str, a float)
Other(t) == [t |-> t, b |-> FALSE, n |-> 0, l |-> <<>>]

\* type(x); a Value (lines 296, 315) is an object of class Value
TypeOf(x) == IF "t" \in DOMAIN x THEN x.t ELSE "Value"

Bit(b) == IF b THEN "True" ELSE "False"

None == "None"

Nones(n) == [i \in 1..n |-> None]

Abs(n) == IF n < 0 THEN 0 - n ELSE n

Min2(a, b) == IF a <= b THEN a ELSE b

\* the order of the keys of DEFAULT_VALUES
TYPES == <<"bool", "int", "list">>

DEFAULT_VALUES == [t \in {"bool", "int", "list"} |->
  IF t = "bool" THEN PyBool(FALSE) ELSE IF t = "int" THEN PyInt(0) ELSE PyList(<<>>)]

FIXED_NUM_INPUTS == 3

-----------------------------------------------------------------------------
(* list helpers: sorted, reverse, set, max, min, sum *)

RECURSIVE Insert(_, _)
Insert(e, s) ==
  IF s = <<>> THEN <<e>>
  ELSE IF e <= Head(s) THEN <<e>> \o s
  ELSE <<Head(s)>> \o Insert(e, Tail(s))

RECURSIVE Sorted(_)
Sorted(l) == IF l = <<>> THEN <<>> ELSE Insert(Head(l), Sorted(Tail(l)))

Reverse(l) == [i \in 1..Len(l) |-> l[Len(l) + 1 - i]]

SetOf(l) == {l[i] : i \in 1..Len(l)}

MaxOf(l) == CHOOSE m \in SetOf(l) : \A e \in SetOf(l) : e <= m

MinOf(l) == CHOOSE m \in SetOf(l) : \A e \in SetOf(l) : m <= e

RECURSIVE SumOf(_)
SumOf(l) == IF l = <<>> THEN 0 ELSE Head(l) + SumOf(Tail(l))

-----------------------------------------------------------------------------
(* lines 91-95 *)

_type_property(x) ==
  LET is_lambda == IF "num_free_variables" \in DOMAIN x
                   THEN x.num_free_variables > 0 ELSE FALSE
      type_x == TypeOf(x)
  IN Ok(<<Bit(is_lambda), Bit(type_x = "bool"), Bit(type_x = "int"),
          Bit(type_x = "list")>>)

(* lines 98-132 *)

_basic_properties(x) ==
  IF x.t = "bool" THEN Ok(<<Bit(x.b), Bit(~x.b)>>)
  ELSE IF x.t = "int" THEN
    LET abs_x == Abs(x.n)
    IN Ok(<<Bit(x.n = -1), Bit(x.n = 0), Bit(x.n = 1), Bit(x.n = 2),
            Bit(x.n > 0), Bit(x.n < 0),
            Bit(abs_x < 5), Bit(abs_x < 10), Bit(abs_x < 30),
            Bit(abs_x < 100), Bit(abs_x < 300), Bit(abs_x >= 300)>>)
  ELSE IF x.t = "list" THEN
    LET sorted_x == Sorted(x.l)
        reverse_sorted_x == Reverse(sorted_x)
        num_unique == Cardinality(SetOf(x.l))
    IN Ok(<<Bit(x.l = sorted_x), Bit(x.l = reverse_sorted_x),
            Bit(num_unique = 1), Bit(num_unique <= Len(x.l) \div 2),
            Bit(num_unique = Len(x.l))>>)
  ELSE Err(NotImplementedError)

\* _relevant without the raise of line 149: an object of any other type is
\* its own relevance set
_relevant_NoRaise(x) ==
  IF x.t = "list" THEN
    LET xl == IF x.l = <<>> THEN <<0>> ELSE x.l
    IN Ok(<<x, PyInt(Len(x.l)), PyInt(MaxOf(xl)), PyInt(MinOf(xl)),
            PyInt(SumOf(xl)), PyInt(xl[1]), PyInt(xl[Len(xl)])>>)
  ELSE Ok(<<x>>)

\* _relevant that returns at line 145 for the empty list instead of
\* substituting [0]
_relevant_EmptyShort(x) ==
  IF x.t = "bool" THEN Ok(<<x>>)
  ELSE IF x.t = "int" THEN Ok(<<x>>)
  ELSE IF x.t = "list" THEN
    IF x.l = <<>> THEN Ok(<<x, PyInt(0)>>)
    ELSE Ok(<<x, PyInt(Len(x.l)), PyInt(MaxOf(x.l)), PyInt(MinOf(x.l)),
              PyInt(SumOf(x.l)), PyInt(x.l[1]), PyInt(x.l[Len(x.l)])>>)
  ELSE Err(NotImplementedError)

(* lines 135-149 *)

_relevant(x) ==
  IF x.t = "bool" THEN Ok(<<x>>)
  ELSE IF x.t = "int" THEN Ok(<<x>>)
  ELSE IF x.t = "list" THEN
    LET orig_x == x
        len_x == Len(x.l)
        xl == IF x.l = <<>> THEN <<0>> ELSE x.l
    IN Ok(<<orig_x, PyInt(len_x), PyInt(MaxOf(xl)), PyInt(MinOf(xl)),
            PyInt(SumOf(xl)), PyInt(xl[1]), PyInt(xl[Len(xl)])>>)
  ELSE Err(NotImplementedError)

(* lines 152-164 *)

\* the branch "not fixed_length" (lines 154-156)
BasicSignatureVariable(x) ==
  Bind(_type_property(x), LAMBDA tp :
    Bind(_relevant(x), LAMBDA rel :
      Cat2(Ok(tp), SumOutcomes([i \in 1..Len(rel) |->
                                  _basic_properties(rel[i])]))))

\* _BASIC_SIGNATURE_LENGTH_BY_TYPE (lines 167-170)
_BASIC_SIGNATURE_LENGTH_BY_TYPE == [t \in {"bool", "int", "list"} |->
  Len(BasicSignatureVariable(DEFAULT_VALUES[t]).val)]

RECURSIVE BasicSlots(_, _, _)
BasicSlots(type_x, basic_signature, i) ==
  IF i > Len(TYPES) THEN <<>>
  ELSE (IF type_x = TYPES[i] THEN basic_signature
        ELSE Nones(_BASIC_SIGNATURE_LENGTH_BY_TYPE[TYPES[i]]))
       \o BasicSlots(type_x, basic_signature, i + 1)

_basic_signature(x, fixed_length) ==
  IF ~fixed_length THEN BasicSignatureVariable(x)
  ELSE
    LET type_x == TypeOf(x)
    IN Bind(BasicSignatureVariable(x), LAMBDA basic_signature :
         Ok(BasicSlots(type_x, basic_signature, 1)))

-----------------------------------------------------------------------------
(* lines 173-210 *)

\* all(op(xi, yi) for xi, yi in zip(x, y))
AllZip(x, y, Op(_, _)) == \A i \in 1..Min2(Len(x), Len(y)) : Op(x[i], y[i])

Le(a, b) == a <= b

Ge(a, b) == a >= b

Eq(a, b) == a = b

\* _compare_same_type with the sign test of line 189 made strict, x > 0 for
\* x >= 0, so that 0 counts as negative
_compare_same_type_StrictSign(x, y) ==
  LET type_x == TypeOf(x)
  IN IF type_x # TypeOf(y) THEN Err(AssertionError)
     ELSE IF type_x = "bool" THEN
       Ok(<<Bit(x.b = y.b), Bit(x.b # y.b), Bit(x.b /\ y.b), Bit(x.b \/ y.b)>>)
     ELSE IF type_x = "int" THEN
       LET abs_diff == Abs(x.n - y.n)
       IN Ok(<<Bit(x.n = y.n), Bit(x.n < y.n), Bit(x.n > y.n),
               Bit(abs_diff < 2), Bit(abs_diff < 5), Bit(abs_diff < 10),
               Bit(abs_diff < 100), Bit((x.n > 0) = (y.n > 0))>>)
     ELSE IF type_x = "list" THEN
       LET unique_x == SetOf(x.l)
           unique_y == SetOf(y.l)
           len_x == Len(x.l)
           len_y == Len(y.l)
       IN Ok(<<Bit(x.l = y.l), Bit(len_x = len_y), Bit(len_x > len_y),
               Bit(len_x < len_y), Bit(Abs(len_x - len_y) < 2),
               Bit(AllZip(x.l, y.l, Le)), Bit(AllZip(x.l, y.l, Ge)),
               Bit(AllZip(x.l, y.l, Eq)),
               Bit(unique_x = unique_y), Bit(unique_x \subseteq unique_y),
               Bit(unique_y \subseteq unique_x)>>)
     ELSE Err(NotImplementedError)

_compare_same_type(x, y) ==
  LET type_x == TypeOf(x)
  IN IF type_x # TypeOf(y) THEN Err(AssertionError)
     ELSE IF type_x = "bool" THEN
       Ok(<<Bit(x.b = y.b), Bit(x.b # y.b), Bit(x.b /\ y.b), Bit(x.b \/ y.b)>>)
     ELSE IF type_x = "int" THEN
       LET abs_diff == Abs(x.n - y.n)
       IN Ok(<<Bit(x.n = y.n), Bit(x.n < y.n), Bit(x.n > y.n),
               Bit(abs_diff < 2), Bit(abs_diff < 5), Bit(abs_diff < 10),
               Bit(abs_diff < 100), Bit((x.n >= 0) = (y.n >= 0))>>)
     ELSE IF type_x = "list" THEN
       LET unique_x == SetOf(x.l)
           unique_y == SetOf(y.l)
           len_x == Len(x.l)
           len_y == Len(y.l)
       IN Ok(<<Bit(x.l = y.l), Bit(len_x = len_y), Bit(len_x > len_y),
               Bit(len_x < len_y), Bit(Abs(len_x - len_y) < 2),
               Bit(AllZip(x.l, y.l, Le)), Bit(AllZip(x.l, y.l, Ge)),
               Bit(AllZip(x.l, y.l, Eq)),
               Bit(unique_x = unique_y), Bit(unique_x \subseteq unique_y),
               Bit(unique_y \subseteq unique_x)>>)
     ELSE Err(NotImplementedError)

(* lines 213-230 *)

\* the members of rs of type t, in order: (r for r in rs if type(r) == t)
OfType(rs, t) == SelectSeq(rs, LAMBDA r : TypeOf(r) = t)

\* the branch "not fixed_length" with the arguments of the comparison of
\* line 220 exchanged
CompareVariable_SwappedArgs(x, y) ==
  IF TypeOf(x) = TypeOf(y) THEN _compare_same_type(x, y)
  ELSE
    Cat2(Bind(_relevant(x), LAMBDA rel_x :
                SumOutcomes([i \in 1..Len(OfType(rel_x, TypeOf(y))) |->
                  _compare_same_type(y, OfType(rel_x, TypeOf(y))[i])])),
         Bind(_relevant(y), LAMBDA rel_y :
                SumOutcomes([i \in 1..Len(OfType(rel_y, TypeOf(x))) |->
                  _compare_same_type(x, OfType(rel_y, TypeOf(x))[i])])))

\* the branch "not fixed_length" (lines 218-223)
CompareVariable(x, y) ==
  LET type_x == TypeOf(x)
      type_y == TypeOf(y)
  IN IF type_x = type_y THEN _compare_same_type(x, y)
     ELSE
       Cat2(Bind(_relevant(x), LAMBDA rel_x :
                   SumOutcomes([i \in 1..Len(OfType(rel_x, type_y)) |->
                     _compare_same_type(OfType(rel_x, type_y)[i], y)])),
            Bind(_relevant(y), LAMBDA rel_y :
                   SumOutcomes([i \in 1..Len(OfType(rel_y, type_x)) |->
                     _compare_same_type(x, OfType(rel_y, type_x)[i])])))

\* the pairs of types with the first component varying fastest
TYPE_PAIRS_Swapped == [i \in 1..(Len(TYPES) * Len(TYPES)) |->
  <<TYPES[((i - 1) % Len(TYPES)) + 1], TYPES[((i - 1) \div Len(TYPES)) + 1]>>]

\* itertools.product(DEFAULT_VALUES, repeat=2)
TYPE_PAIRS == [i \in 1..(Len(TYPES) * Len(TYPES)) |->
  <<TYPES[((i - 1) \div Len(TYPES)) + 1], TYPES[((i - 1) % Len(TYPES)) + 1]>>]

\* _COMPARE_LENGTH_BY_TYPES (lines 233-237)
_COMPARE_LENGTH_BY_TYPES ==
  [p \in {"bool", "int", "list"} \X {"bool", "int", "list"} |->
    Len(CompareVariable(DEFAULT_VALUES[p[1]], DEFAULT_VALUES[p[2]]).val)]

RECURSIVE CompareSlots(_, _, _)
CompareSlots(x, y, i) ==
  IF i > Len(TYPE_PAIRS) THEN Ok(<<>>)
  ELSE Cat2(IF <<TypeOf(x), TypeOf(y)>> = TYPE_PAIRS[i]
            THEN CompareVariable(x, y)
            ELSE Ok(Nones(_COMPARE_LENGTH_BY_TYPES[TYPE_PAIRS[i]])),
            CompareSlots(x, y, i + 1))

_compare(x, y, fixed_length) ==
  IF ~fixed_length THEN CompareVariable(x, y)
  ELSE CompareSlots(x, y, 1)

-----------------------------------------------------------------------------
(* lines 240-262 *)

\* sum((_basic_signature(i) + _compare(i, output) for i in inputs), [])
PerInput(inputs, output, fixed_length) ==
  SumOutcomes([k \in 1..Len(inputs) |->
    Cat2(_basic_signature(inputs[k], fixed_length),
         _compare(inputs[k], output, fixed_length))])

\* lines 257-262: result is the signature before the padding
PadInputs(result, basic_sig_length, num_inputs) ==
  IF num_inputs < FIXED_NUM_INPUTS THEN
    IF num_inputs = 0 THEN Err(ZeroDivisionError)
    ELSE IF (Len(result) - basic_sig_length) % num_inputs # 0
      THEN Err(AssertionError)
    ELSE Ok(result \o
            Nones(((Len(result) - basic_sig_length) \div num_inputs)
                  * (FIXED_NUM_INPUTS - num_inputs)))
  ELSE Ok(result)

_property_signature_single_example(inputs, output, fixed_length) ==
  IF ~fixed_length
  THEN Cat2(_basic_signature(output, fixed_length),
            PerInput(inputs, output, fixed_length))
  ELSE
    LET inputs_1 == IF Len(inputs) > FIXED_NUM_INPUTS
                    THEN SubSeq(inputs, 1, FIXED_NUM_INPUTS) ELSE inputs
    IN Bind(_basic_signature(output, fixed_length), LAMBDA result :
         Bind(PerInput(inputs_1, output, fixed_length), LAMBDA extension :
           PadInputs(result \o extension, Len(result), Len(inputs_1))))

(* lines 265-270 *)

_property_signature_single_object(x, output, fixed_length) ==
  Cat2(_basic_signature(x, fixed_length), _compare(x, output, fixed_length))

-----------------------------------------------------------------------------
(* lines 273-292 *)

RECURSIVE GCD(_, _)
GCD(a, b) == IF b = 0 THEN a ELSE GCD(b, a % b)

\* the float n / d, d > 0, as a fraction in lowest terms
Frac(n, d) == <<n \div GCD(n, d), d \div GCD(n, d)>>

\* the reduction with frac_true taken over all the samples instead of the
\* samples that are not None (line 287)
_reduce_across_examples_OverAll(signatures) ==
  IF Len(signatures) = 0 THEN Err(AssertionError)
  ELSE IF \E s \in 1..Len(signatures) :
            Len(signatures[s]) # Len(signatures[1])
    THEN Err(AssertionError)
  ELSE Ok([p \in 1..Len(signatures[1]) |->
    LET num_not_none ==
          Cardinality({s \in 1..Len(signatures) : signatures[s][p] # None})
        num_true ==
          Cardinality({s \in 1..Len(signatures) : signatures[s][p] = "True"})
        frac_true == IF num_not_none # 0
                     THEN Frac(num_true, Len(signatures)) ELSE Frac(1, 2)
    IN <<Frac(num_not_none, Len(signatures)),
         frac_true = Frac(1, 1),
         frac_true = Frac(0, 1),
         frac_true>>])

_reduce_across_examples(signatures) ==
  LET num_examples == Len(signatures)
  IN IF num_examples = 0 THEN Err(AssertionError)
     ELSE
       LET signature_len == Len(signatures[1])
       IN IF \E s \in 1..num_examples : Len(signatures[s]) # signature_len
          THEN Err(AssertionError)
          ELSE Ok([p \in 1..signature_len |->
            LET num_not_none ==
                  Cardinality({s \in 1..num_examples : signatures[s][p] # None})
                num_true ==
                  Cardinality({s \in 1..num_examples : signatures[s][p] = "True"})
                frac_true == IF num_not_none # 0
                             THEN Frac(num_true, num_not_none) ELSE Frac(1, 2)
            IN <<Frac(num_not_none, num_examples),
                 frac_true = Frac(1, 1),
                 frac_true = Frac(0, 1),
                 frac_true>>])

-----------------------------------------------------------------------------
(* Value: num_examples, num_free_variables, values, indexing *)

Value(values, num_free_variables) ==
  [num_examples |-> Len(values), num_free_variables |-> num_free_variables,
   values |-> values]

\* value[index], index counted from 0 (lines 428-431)
GetItem(value, index) ==
  LET index_1 == IF value.num_examples = 1 THEN 0 ELSE index
  IN IF index_1 < Len(value.values) THEN Ok(value.values[index_1 + 1])
     ELSE Err(IndexError)

\* [f(i) for i in range(n)]: the list of the results, or the first error
RECURSIVE Collect(_)
Collect(rs) ==
  IF rs = <<>> THEN Ok(<<>>)
  ELSE IF ~Head(rs).ok THEN Head(rs)
  ELSE LET rest == Collect(Tail(rs))
       IN IF ~rest.ok THEN rest ELSE Ok(<<Head(rs).val>> \o rest.val)

(* lines 295-306 *)

property_signature_io_examples(input_values, output_value, fixed_length) ==
  LET num_examples == output_value.num_examples
  IN IF \E k \in 1..Len(input_values) :
          input_values[k].num_examples # num_examples
     THEN Err(AssertionError)
     ELSE
       Bind(Collect([e \in 1..num_examples |->
              Bind(Collect([k \in 1..Len(input_values) |->
                              GetItem(input_values[k], e - 1)]),
                   LAMBDA inputs :
                Bind(GetItem(output_value, e - 1), LAMBDA output :
                  _property_signature_single_example(
                    inputs, output, fixed_length)))]),
            LAMBDA signatures : _reduce_across_examples(signatures))

\* value_module.InputVariable([1, 2], 'in1'), value_module.OutputValue([-1, -2])
IO_EXAMPLES_SIGNATURE_LENGTH ==
  Len(property_signature_io_examples(
        <<Value(<<PyInt(1), PyInt(2)>>, 0)>>,
        Value(<<PyInt(-1), PyInt(-2)>>, 0), TRUE).val)

(* lines 314-323 *)

_property_signature_concrete_value(value, output_value, fixed_length) ==
  IF value.num_free_variables # 0 THEN Err(AssertionError)
  ELSE
    Bind(Collect([e \in 1..output_value.num_examples |->
           Bind(GetItem(value, e - 1), LAMBDA x :
             Bind(GetItem(output_value, e - 1), LAMBDA output :
               _property_signature_single_object(x, output, fixed_length)))]),
         LAMBDA signatures : _reduce_across_examples(signatures))

-----------------------------------------------------------------------------
(* Probe values (lines 67-83) *)

VALUES_TO_TRY_bool == <<FALSE, TRUE>>

VALUES_TO_TRY_int ==
  <<-100, -50, -20, -10, -7, -5, -4, -3, -2, -1, 0, 1, 2, 3, 4, 5,
    7, 10, 20, 50, 100>>

VALUES_TO_TRY_list ==
  << <<>>,
     <<0>>, <<-1>>, <<1>>, <<6>>,
     <<0, 1>>, <<2, 2>>, <<-2, -4>>, <<5, -3>>, <<-8, 1>>,
     <<1, 2, 3>>, <<6, 2, 5>>, <<-5, 2, -19>>,
     <<-32, 51, -45, 23>>,
     <<0, 0, 0, 0, 0>>,
     <<2, 2, 1, 3, 3, 0>>,
     <<5, -6, 9, -19, 43, 22, -1>>,
     <<6, 21, 23, 45, 55, 67, 72, 75>>,
     <<24, -22, 0, 1, 6, -59, 35, 1, -2>>,
     <<0, 0, 0, 1, 1, 1, 1, 2, 3, 3>> >>

\* the number of integer probes and of list probes the model tries, taken
\* from the front of the lists of VALUES_TO_TRY
NumIntProbes == 1

NumListProbes == 1

\* inputs_to_try = sum(VALUES_TO_TRY.values(), []) (line 332)
inputs_to_try ==
  [i \in 1..Len(VALUES_TO_TRY_bool) |-> PyBool(VALUES_TO_TRY_bool[i])]
  \o [i \in 1..Min2(NumIntProbes, Len(VALUES_TO_TRY_int)) |->
        PyInt(VALUES_TO_TRY_int[i])]
  \o [i \in 1..Min2(NumListProbes, Len(VALUES_TO_TRY_list)) |->
        PyList(VALUES_TO_TRY_list[i])]

RECURSIVE Pow(_, _)
Pow(b, e) == IF e = 0 THEN 1 ELSE b * Pow(b, e - 1)

\* the j-th tuple (from 0) of itertools.product(pool, repeat=arity): the
\* last component varies fastest
RECURSIVE ProductTuple(_, _, _)
ProductTuple(pool, arity, j) ==
  IF arity = 0 THEN <<>>
  ELSE ProductTuple(pool, arity - 1, j \div Len(pool))
       \o <<pool[(j % Len(pool)) + 1]>>

-----------------------------------------------------------------------------
(* Per-example callables of a functional Value.  A callable is named; its  *)
(* behaviour on a tuple of arguments is an object, None, or an exception.  *)

PyNone == Other("NoneType")

Raised == "raised"

\* lambda x: 10 + x, the Add operation applied to the constant 10 (line 388)
ApplyAdd10(inputs) ==
  IF Len(inputs) # 1 THEN Err(Raised)
  ELSE IF inputs[1].t = "int" THEN Ok(PyInt(10 + inputs[1].n))
  ELSE IF inputs[1].t = "bool"
    THEN Ok(PyInt(10 + (IF inputs[1].b THEN 1 ELSE 0)))
  ELSE Err(Raised)

\* lambda x, y: [e + c*y for e in x] if type(x) == list and type(y) == int
\*              else None (lines 451-454, c = 3 and c = -1)
ApplyMap(c, inputs) ==
  IF Len(inputs) # 2 THEN Err(Raised)
  ELSE IF inputs[1].t = "list" /\ inputs[2].t = "int"
    THEN Ok(PyList([i \in 1..Len(inputs[1].l) |->
                      inputs[1].l[i] + c * inputs[2].n]))
  ELSE Ok(PyNone)

\* lambda *xs: sum(xs) if all(type(x) == int for x in xs) else None
ApplySum(inputs) ==
  IF \A i \in 1..Len(inputs) : inputs[i].t = "int"
  THEN Ok(PyInt(SumOf([i \in 1..Len(inputs) |-> inputs[i].n])))
  ELSE Ok(PyNone)

\* lambda x: len(x) == 0
ApplyIsEmpty(inputs) ==
  IF Len(inputs) # 1 THEN Err(Raised)
  ELSE IF inputs[1].t = "list" THEN Ok(PyBool(inputs[1].l = <<>>))
  ELSE Err(Raised)

\* lambda x: x
ApplyIdent(inputs) ==
  IF Len(inputs) # 1 THEN Err(Raised) ELSE Ok(inputs[1])

\* lambda_fn(*inputs_list) (line 336)
Apply(lambda_fn, inputs) ==
  IF lambda_fn = "add10" THEN ApplyAdd10(inputs)
  ELSE IF lambda_fn = "map3" THEN ApplyMap(3, inputs)
  ELSE IF lambda_fn = "map_1" THEN ApplyMap(-1, inputs)
  ELSE IF lambda_fn = "sum" THEN ApplySum(inputs)
  ELSE IF lambda_fn = "isempty" THEN ApplyIsEmpty(inputs)
  ELSE IF lambda_fn = "ident" THEN ApplyIdent(inputs)
  ELSE IF lambda_fn = "none" THEN Ok(PyNone)
  ELSE Err(Raised)

(* lines 326-341 *)

\* the body of the loops without the test of line 337: a None result is
\* recorded too
TryLambda_KeepNone(lambda_fn, inputs_list) ==
  LET result == Apply(lambda_fn, inputs_list)
  IN IF ~result.ok THEN <<>> ELSE << <<inputs_list, result.val>> >>

\* the body of the loops (lines 335-340): one callable on one tuple
TryLambda(lambda_fn, inputs_list) ==
  LET result == Apply(lambda_fn, inputs_list)
  IN IF ~result.ok THEN <<>>
     ELSE IF result.val # PyNone THEN << <<inputs_list, result.val>> >>
     ELSE <<>>

\* the inner loop (line 334) for one tuple: what each example's list gains;
\* zip stops at the shorter of value.values and io_pairs_per_example
InnerLoop(value, inputs_list) ==
  [i \in 1..Min2(value.num_examples, Len(value.values)) |->
     TryLambda(value.values[i], inputs_list)]

\* the outer loop (line 333) over the tuples lo..hi of the product, in
\* order: the lists of the examples after the appends of these tuples
RECURSIVE OuterLoop(_, _, _)
OuterLoop(value, lo, hi) ==
  IF lo > hi THEN [i \in 1..Min2(value.num_examples, Len(value.values)) |-> <<>>]
  ELSE IF lo = hi
    THEN InnerLoop(value,
                   ProductTuple(inputs_to_try, value.num_free_variables, lo))
  ELSE LET mid == (lo + hi) \div 2
           left == OuterLoop(value, lo, mid)
           right == OuterLoop(value, mid + 1, hi)
       IN [i \in 1..Len(left) |-> left[i] \o right[i]]

_run_lambda(value) ==
  LET arity == value.num_free_variables
  IN IF ~(arity > 0) THEN Err(AssertionError)
     ELSE Ok(OuterLoop(value, 0, Pow(Len(inputs_to_try), arity) - 1))

-----------------------------------------------------------------------------
(* lines 384-393 *)

_REDUCED_PADDING == <<Frac(0, 1), FALSE, FALSE, Frac(1, 2)>>

Padding(n) == [i \in 1..n |-> _REDUCED_PADDING]

\* value_module.ConstantValue(0), value_module.OutputValue([1])
_SIGNATURE_LENGTH_CONCRETE_VALUE ==
  Len(_property_signature_concrete_value(
        Value(<<PyInt(0)>>, 0), Value(<<PyInt(1)>>, 0), TRUE).val)

\* Add().apply([ConstantValue(10), free variable 0]): lambda x: 10 + x
_LAMBDA_VALUE == Value(<<"add10">>, 1)

\* the signatures of the samples (lines 354-360), in example order
LambdaSamples(value, output_value, fixed_length, io_pairs_per_example) ==
  Collect([example_index \in 1..Len(io_pairs_per_example) |->
    Collect([k \in 1..Len(io_pairs_per_example[example_index]) |->
      LET inputs == io_pairs_per_example[example_index][k][1]
          output == io_pairs_per_example[example_index][k][2]
      IN Bind(GetItem(output_value, example_index - 1), LAMBDA true_output :
           Cat2(_type_property(value),
             Cat2(_compare(output, true_output, fixed_length),
                  _property_signature_single_example(
                    inputs, output, fixed_length))))])])

RECURSIVE Flatten(_)
Flatten(ss) == IF ss = <<>> THEN <<>> ELSE Head(ss) \o Flatten(Tail(ss))

\* lines 344-361 without the all-padding case of lines 350-353
SignatureLambda_NoEmptyCase(value, output_value, fixed_length, padding_length) ==
  Bind(_run_lambda(value), LAMBDA io_pairs_per_example :
    Bind(LambdaSamples(value, output_value, fixed_length,
                       io_pairs_per_example),
         LAMBDA signatures_to_reduce :
           _reduce_across_examples(Flatten(signatures_to_reduce))))

\* lines 344-361, given the width of the all-padding signature
SignatureLambda(value, output_value, fixed_length, padding_length) ==
  Bind(_run_lambda(value), LAMBDA io_pairs_per_example :
    IF \A i \in 1..Len(io_pairs_per_example) : io_pairs_per_example[i] = <<>>
    THEN Ok(Padding(padding_length))
    ELSE Bind(LambdaSamples(value, output_value, fixed_length,
                            io_pairs_per_example),
              LAMBDA signatures_to_reduce :
                _reduce_across_examples(Flatten(signatures_to_reduce))))

\* line 391: the width is measured on _LAMBDA_VALUE, which has samples, so
\* the measurement does not read the width it defines
_SIGNATURE_LENGTH_LAMBDA_VALUE ==
  Len(SignatureLambda(_LAMBDA_VALUE, Value(<<PyInt(1)>>, 0), TRUE, 0).val)

(* lines 344-361 *)

_property_signature_lambda(value, output_value, fixed_length) ==
  SignatureLambda(value, output_value, fixed_length,
                  _SIGNATURE_LENGTH_LAMBDA_VALUE)

\* property_signature_value whose fixed-length branch for a functional value
\* leaves out the padding of line 377
property_signature_value_NoPadding(value, output_value, fixed_length) ==
  IF value.num_free_variables # 0
  THEN _property_signature_lambda(value, output_value, fixed_length)
  ELSE IF ~fixed_length
    THEN _property_signature_concrete_value(value, output_value, fixed_length)
  ELSE Cat2(_property_signature_concrete_value(value, output_value,
                                               fixed_length),
            Ok(Padding(_SIGNATURE_LENGTH_LAMBDA_VALUE)))

(* lines 364-382 *)

property_signature_value(value, output_value, fixed_length) ==
  IF ~fixed_length THEN
    IF value.num_free_variables # 0
    THEN _property_signature_lambda(value, output_value, fixed_length)
    ELSE _property_signature_concrete_value(value, output_value, fixed_length)
  ELSE
    IF value.num_free_variables # 0
    THEN Cat2(Ok(Padding(_SIGNATURE_LENGTH_CONCRETE_VALUE)),
              _property_signature_lambda(value, output_value, fixed_length))
    ELSE Cat2(_property_signature_concrete_value(value, output_value,
                                                 fixed_length),
              Ok(Padding(_SIGNATURE_LENGTH_LAMBDA_VALUE)))

\* lines 395-398
VALUE_SIGNATURE_LENGTH ==
  Len(property_signature_value(
        Value(<<PyInt(1), PyInt(2)>>, 0),
        Value(<<PyInt(-1), PyInt(-2)>>, 0), TRUE).val)

-----------------------------------------------------------------------------
(* The arguments the calls are drawn from *)

MaxListLen == 2

MaxInputs == 4

MaxExamples == 2

MaxSamples == 3

MaxSigLen == 2

MaxArity == 4

\* the sequences over S of a length in lo..hi
Seqs(S, lo, hi) == UNION {[1..n -> S] : n \in lo..hi}

\* the sequences of length 1..hi whose first member and whose other
\* members (all alike) are drawn from S
FirstRest(S, hi) ==
  UNION {{[i \in 1..n |-> IF i = 1 THEN a ELSE b] : a \in S, b \in S} :
         n \in 1..hi}

IntVals == {-300, -12, -1, 0, 1, 2, 7, 100}

ListElems == {-1, 0, 2}

Bools == {PyBool(b) : b \in BOOLEAN}

Ints == {PyInt(n) : n \in IntVals}

Lists == {PyList(l) : l \in Seqs(ListElems, 0, MaxListLen)}

Supported == Bools \cup Ints \cup Lists

Unsupported == {Other("str"), Other("float")}

Objects == Supported \cup Unsupported

\* two lists of different lengths, one a proper prefix of the other, longer
\* than MaxListLen: arguments of _compare_same_type
PrefixLists == {PyList(<<1, 2, 3>>), PyList(<<1, 2, 3, 4>>)}

\* the objects of the inputs and outputs of an I/O example
ExampleObjects == {PyBool(TRUE), PyInt(2), PyList(<<0, 2>>)}

\* the per-example objects of a concrete Value
ValueObjects == {PyBool(FALSE), PyInt(-1), PyList(<<>>)}

OutputObjects == {PyInt(1), PyList(<<0, 2>>)}

ConcreteValues == {Value(v, 0) : v \in FirstRest(ValueObjects, MaxExamples)}

\* the input Values of a set of I/O examples
InputObjects == {PyInt(2), PyList(<<0, 2>>)}

InputValues == {Value(v, 0) : v \in FirstRest(InputObjects, MaxExamples)}

\* output Values: the same object in every example
OutputValues ==
  {Value([i \in 1..n |-> o], 0) : o \in OutputObjects, n \in 1..MaxExamples}

\* the callables that take arity arguments, and those that take any number
LambdaFns(arity) ==
  {"raise", "none", "sum"}
  \cup (IF arity = 1 THEN {"add10", "isempty", "ident"} ELSE {})
  \cup (IF arity = 2 THEN {"map3", "map_1"} ELSE {})

\* functional Values: any callable for the first example, and for the other
\* examples one that raises or one that yields samples; a Value of more than
\* FIXED_NUM_INPUTS arguments has one example
LambdaValues ==
  UNION {{Value([i \in 1..n |-> IF i = 1 THEN a ELSE b], arity) :
            a \in LambdaFns(arity), b \in {"raise", "sum"},
            n \in 1..(IF arity > FIXED_NUM_INPUTS THEN 1 ELSE MaxExamples)} :
         arity \in 1..MaxArity}

Signatures ==
  UNION {Seqs([1..m -> {"True", "False", None}], 1, MaxSamples) :
         m \in 0..MaxSigLen}

ArgsOf(c) ==
  IF c = "_type_property"
    THEN {[x |-> x] : x \in Objects \cup ConcreteValues \cup LambdaValues}
  ELSE IF c \in {"_basic_properties", "_relevant"}
    THEN {[x |-> x] : x \in Objects}
  ELSE IF c = "_basic_signature"
    THEN {[x |-> x, fixed_length |-> f] : x \in Objects, f \in BOOLEAN}
  ELSE IF c = "_compare_same_type"
    THEN {[x |-> x, y |-> y] :
          x \in Objects \cup PrefixLists, y \in Objects \cup PrefixLists}
  ELSE IF c = "_compare"
    THEN {[x |-> x, y |-> y, fixed_length |-> f] :
          x \in Objects, y \in Objects, f \in BOOLEAN}
  ELSE IF c = "_property_signature_single_example"
    THEN {[inputs |-> i, output |-> o, fixed_length |-> f] :
          i \in Seqs(ExampleObjects, 0, MaxInputs), o \in ExampleObjects,
          f \in BOOLEAN}
  ELSE IF c = "_reduce_across_examples"
    THEN {[signatures |-> s] : s \in Signatures \cup {<<>>}}
  ELSE IF c = "property_signature_io_examples"
    THEN {[input_values |-> i, output_value |-> o, fixed_length |-> f] :
          i \in FirstRest(InputValues, MaxInputs) \cup {<<>>},
          o \in OutputValues, f \in BOOLEAN}
  ELSE IF c = "_run_lambda"
    THEN {[value |-> v] : v \in LambdaValues}
  ELSE IF c = "_property_signature_lambda"
    THEN {[value |-> v, output_value |-> o, fixed_length |-> f] :
          v \in LambdaValues, o \in OutputValues, f \in BOOLEAN}
  ELSE IF c = "property_signature_value"
    THEN {[value |-> v, output_value |-> o, fixed_length |-> f] :
          v \in ConcreteValues \cup LambdaValues, o \in OutputValues,
          f \in BOOLEAN}
  ELSE {}

-----------------------------------------------------------------------------
(* The state machine: a call is drawn, then the function is applied *)

InitCalls(calls) ==
  /\ pc = "start"
  /\ call \in calls
  /\ args \in ArgsOf(call)
  /\ ret = Ok(<<>>)

Return(c, r) ==
  /\ pc = "start"
  /\ call = c
  /\ ret' = r
  /\ pc' = "done"
  /\ UNCHANGED <<call, args>>

TypeProperty == Return("_type_property", _type_property(args.x))

BasicProperties == Return("_basic_properties", _basic_properties(args.x))

Relevant == Return("_relevant", _relevant(args.x))

BasicSignature ==
  Return("_basic_signature", _basic_signature(args.x, args.fixed_length))

CompareSameType ==
  Return("_compare_same_type", _compare_same_type(args.x, args.y))

Compare == Return("_compare", _compare(args.x, args.y, args.fixed_length))

SingleExample ==
  Return("_property_signature_single_example",
         _property_signature_single_example(args.inputs, args.output,
                                            args.fixed_length))

ReduceAcrossExamples ==
  Return("_reduce_across_examples", _reduce_across_examples(args.signatures))

IoExamples ==
  Return("property_signature_io_examples",
         property_signature_io_examples(args.input_values, args.output_value,
                                        args.fixed_length))

RunLambda == Return("_run_lambda", _run_lambda(args.value))

SignatureOfLambda ==
  Return("_property_signature_lambda",
         _property_signature_lambda(args.value, args.output_value,
                                    args.fixed_length))

SignatureOfValue ==
  Return("property_signature_value",
         property_signature_value(args.value, args.output_value,
                                  args.fixed_length))

\* the per-object functions: classification, properties, relevance, comparison
InitObject ==
  InitCalls({"_type_property", "_basic_properties", "_relevant",
             "_basic_signature", "_compare_same_type", "_compare"})

NextObject ==
  \/ TypeProperty
  \/ BasicProperties
  \/ Relevant
  \/ BasicSignature
  \/ CompareSameType
  \/ Compare

SpecObject == InitObject /\ [][NextObject]_vars

\* the signature of one I/O example and of a set of I/O examples
InitExample ==
  InitCalls({"_property_signature_single_example",
             "property_signature_io_examples"})

NextExample ==
  \/ SingleExample
  \/ IoExamples

SpecExample == InitExample /\ [][NextExample]_vars

\* the reduction across examples
InitReduce == InitCalls({"_reduce_across_examples"})

NextReduce == ReduceAcrossExamples

SpecReduce == InitReduce /\ [][NextReduce]_vars

\* the signatures of Values, concrete and functional
InitValue ==
  InitCalls({"_run_lambda", "_property_signature_lambda",
             "property_signature_value"})

NextValue ==
  \/ RunLambda
  \/ SignatureOfLambda
  \/ SignatureOfValue

SpecValue == InitValue /\ [][NextValue]_vars

\* every function
Init ==
  InitCalls({"_type_property", "_basic_properties", "_relevant",
             "_basic_signature", "_compare_same_type", "_compare",
             "_property_signature_single_example", "_reduce_across_examples",
             "property_signature_io_examples", "_run_lambda",
             "_property_signature_lambda", "property_signature_value"})

Next ==
  \/ NextObject
  \/ NextExample
  \/ NextReduce
  \/ NextValue

Spec == Init /\ [][Next]_vars

-----------------------------------------------------------------------------
(* Definitions shared by the properties *)

IsSupported(x) == TypeOf(x) \in {"bool", "int", "list"}

Returned(c) == pc = "done" /\ call = c

AllNone(sig) == \A i \in 1..Len(sig) : sig[i] = None

\* the position of a type in the enumeration bool, int, list
TypeIndex(t) == IF t = "bool" THEN 1 ELSE IF t = "int" THEN 2 ELSE 3

RECURSIVE SumTo(_, _)
SumTo(f, n) == IF n = 0 THEN 0 ELSE f[n] + SumTo(f, n - 1)

\* the widths of the three slots of a basic signature, in slot order
BasicWidths == [i \in 1..3 |-> _BASIC_SIGNATURE_LENGTH_BY_TYPE[TYPES[i]]]

\* the widths of the nine slots of a comparison, in slot order: the slot of
\* the pair (t1, t2) is number 3 * (TypeIndex(t1) - 1) + TypeIndex(t2)
CompareWidths ==
  [i \in 1..9 |->
     _COMPARE_LENGTH_BY_TYPES[<<TYPES[((i - 1) \div 3) + 1],
                                TYPES[((i - 1) % 3) + 1]>>]]

BasicWidth == SumTo(BasicWidths, 3)

CompareWidth == SumTo(CompareWidths, 9)

\* slot number i of a signature laid out with the widths w
Slot(sig, w, i) == SubSeq(sig, SumTo(w, i - 1) + 1, SumTo(w, i))

SameNumExamples ==
  IF call = "property_signature_io_examples"
  THEN \A k \in 1..Len(args.input_values) :
         args.input_values[k].num_examples = args.output_value.num_examples
  ELSE args.value.num_examples = args.output_value.num_examples

IsLambda(value) == value.num_free_variables > 0

NumTuples(value) == Pow(Len(inputs_to_try), value.num_free_variables)

\* the invocation of the callable of example i on the j-th probe tuple
\* contributes a sample
Succeeds(value, i, j) ==
  LET r == Apply(value.values[i],
                 ProductTuple(inputs_to_try, value.num_free_variables, j))
  IN r.ok /\ r.val # PyNone

NoProbeSucceeds(value) ==
  \A i \in 1..value.num_examples : \A j \in 0..(NumTuples(value) - 1) :
    ~Succeeds(value, i, j)

-----------------------------------------------------------------------------
\* C1: in fixed-length mode property_signature_value returns exactly
\* VALUE_SIGNATURE_LENGTH = _SIGNATURE_LENGTH_CONCRETE_VALUE +
\* _SIGNATURE_LENGTH_LAMBDA_VALUE reduced tuples, for a concrete value of
\* bools, ints or lists and for a functional value of any arity, whether
\* all, some or none of its probes succeed.
C1_ValueSignatureLength ==
  (Returned("property_signature_value") /\ args.fixed_length
   /\ SameNumExamples)
  => /\ ret.ok
     /\ Len(ret.val) = VALUE_SIGNATURE_LENGTH
     /\ VALUE_SIGNATURE_LENGTH =
          _SIGNATURE_LENGTH_CONCRETE_VALUE + _SIGNATURE_LENGTH_LAMBDA_VALUE

\* a functional value of more than FIXED_NUM_INPUTS arguments, some of whose
\* probes succeed and some do not, got a signature of the fixed width
C1_Witness ==
  /\ Returned("property_signature_value") /\ args.fixed_length
  /\ SameNumExamples
  /\ args.value.num_free_variables > FIXED_NUM_INPUTS
  /\ \E j \in 0..(NumTuples(args.value) - 1) : Succeeds(args.value, 1, j)
  /\ \E j \in 0..(NumTuples(args.value) - 1) : ~Succeeds(args.value, 1, j)
  /\ ret.ok /\ Len(ret.val) = VALUE_SIGNATURE_LENGTH
  /\ \E p \in 1..Len(ret.val) : ret.val[p] # _REDUCED_PADDING

\* C2: in fixed-length mode _property_signature_single_example returns a
\* signature of one constant width for every number n >= 0 of inputs, and
\* property_signature_io_examples returns IO_EXAMPLES_SIGNATURE_LENGTH tuples.
C2_ConstantWidthForEveryNumberOfInputs ==
  /\ (Returned("_property_signature_single_example") /\ args.fixed_length)
     => /\ ret.ok
        /\ Len(ret.val) =
             BasicWidth + FIXED_NUM_INPUTS * (BasicWidth + CompareWidth)
  /\ (Returned("property_signature_io_examples") /\ args.fixed_length
      /\ SameNumExamples)
     => /\ ret.ok
        /\ Len(ret.val) = IO_EXAMPLES_SIGNATURE_LENGTH

\* C3: a top-level signature computation whose Values do not all have the
\* same num_examples fails with an error.
C3_MismatchedNumExamplesFail ==
  (pc = "done"
   /\ call \in {"property_signature_io_examples", "property_signature_value"}
   /\ ~SameNumExamples)
  => ~ret.ok

\* C4 as stated: every dispatch point fails with the 'unhandled type' error
\* on a value whose type is outside bool, int, list.
C4_EveryDispatchPointFails ==
  /\ (pc = "done"
      /\ call \in {"_type_property", "_basic_properties", "_relevant"}
      /\ ~IsSupported(args.x))
     => ret = Err(NotImplementedError)
  /\ (pc = "done" /\ call \in {"_compare_same_type", "_compare"}
      /\ (~IsSupported(args.x) \/ ~IsSupported(args.y)))
     => ret = Err(NotImplementedError)

\* C4 amended: on a value whose type is outside bool, int, list,
\* _basic_properties, _relevant and variable-length _compare fail with the
\* 'unhandled type' error; _compare_same_type fails, with the 'unhandled
\* type' error when both arguments have the same type and with an assertion
\* error otherwise; _type_property returns [is_lambda, False, False, False];
\* fixed-length _compare returns a signature of the constant width that is
\* None everywhere.
C4_DispatchOnUnsupportedType ==
  /\ (Returned("_type_property") /\ ~IsSupported(args.x))
     => ret = Ok(<<Bit("num_free_variables" \in DOMAIN args.x
                       /\ args.x.num_free_variables > 0),
                   "False", "False", "False">>)
  /\ (pc = "done" /\ call \in {"_basic_properties", "_relevant"}
      /\ ~IsSupported(args.x))
     => ret = Err(NotImplementedError)
  /\ (Returned("_compare_same_type")
      /\ (~IsSupported(args.x) \/ ~IsSupported(args.y)))
     => ret = IF TypeOf(args.x) = TypeOf(args.y)
              THEN Err(NotImplementedError) ELSE Err(AssertionError)
  /\ (Returned("_compare") /\ ~args.fixed_length
      /\ (~IsSupported(args.x) \/ ~IsSupported(args.y)))
     => ret = Err(NotImplementedError)
  /\ (Returned("_compare") /\ args.fixed_length
      /\ (~IsSupported(args.x) \/ ~IsSupported(args.y)))
     => ret.ok /\ Len(ret.val) = CompareWidth /\ AllNone(ret.val)

\* fixed-length _compare of a list with an object of an unsupported type
\* returned the all-None signature
C4_Witness ==
  /\ Returned("_compare") /\ args.fixed_length
  /\ args.x.t = "list" /\ ~IsSupported(args.y)
  /\ ret.ok /\ Len(ret.val) > 0 /\ AllNone(ret.val)

\* C5: for a functional value none of whose probe invocations yields a
\* sample, _property_signature_lambda returns exactly
\* _SIGNATURE_LENGTH_LAMBDA_VALUE padding tuples and raises nothing, and
\* fixed-length property_signature_value is VALUE_SIGNATURE_LENGTH padding
\* tuples.
C5_AllPaddingWhenNoProbeSucceeds ==
  /\ (Returned("_property_signature_lambda") /\ NoProbeSucceeds(args.value))
     => /\ ret.ok
        /\ Len(ret.val) = _SIGNATURE_LENGTH_LAMBDA_VALUE
        /\ \A p \in 1..Len(ret.val) :
             ret.val[p] = <<<<0, 1>>, FALSE, FALSE, <<1, 2>>>>
  /\ (Returned("property_signature_value") /\ args.fixed_length
      /\ IsLambda(args.value) /\ NoProbeSucceeds(args.value))
     => /\ ret.ok
        /\ Len(ret.val) = VALUE_SIGNATURE_LENGTH
        /\ \A p \in 1..Len(ret.val) :
             ret.val[p] = <<<<0, 1>>, FALSE, FALSE, <<1, 2>>>>

\* a functional value of two examples, one returning None and one raising on
\* every probe, got the all-padding signature
C5_Witness ==
  /\ Returned("_property_signature_lambda")
  /\ args.value.values = <<"none", "raise">>
  /\ NoProbeSucceeds(args.value)
  /\ ret.ok /\ Len(ret.val) = _SIGNATURE_LENGTH_LAMBDA_VALUE
  /\ Len(ret.val) > 0

\* the number of samples whose entry at position p is e
CountAt(signatures, p, e) ==
  Cardinality({k \in 1..Len(signatures) : signatures[k][p] = e})

\* C6: for a non-empty list of equal-length signatures over True, False,
\* None, _reduce_across_examples returns one tuple per position, in order,
\* equal to (coverage, all_true, all_false, frac_true): coverage is the
\* share of non-None samples, frac_true the share of True among the
\* non-None samples or 0.5 when there is none, all_true iff frac_true = 1,
\* all_false iff frac_true = 0.  A position constant at b gives
\* (1.0, b, not b, 1.0 if b else 0.0), an all-None position gives
\* (0.0, False, False, 0.5), and all_true and all_false never both hold.
C6_ReducedTuples ==
  (Returned("_reduce_across_examples") /\ args.signatures # <<>>)
  => /\ ret.ok
     /\ Len(ret.val) = Len(args.signatures[1])
     /\ \A p \in 1..Len(ret.val) :
          LET n == Len(args.signatures)
              nt == CountAt(args.signatures, p, "True")
              nf == CountAt(args.signatures, p, "False")
              coverage == ret.val[p][1]
              all_true == ret.val[p][2]
              all_false == ret.val[p][3]
              frac_true == ret.val[p][4]
          IN /\ coverage[2] > 0 /\ coverage[1] * n = (nt + nf) * coverage[2]
             /\ frac_true[2] > 0
             /\ IF nt + nf = 0 THEN frac_true[1] * 2 = frac_true[2]
                ELSE frac_true[1] * (nt + nf) = nt * frac_true[2]
             /\ all_true <=> (frac_true[1] = frac_true[2])
             /\ all_false <=> (frac_true[1] = 0)
             /\ ~(all_true /\ all_false)
             /\ nt = n => ret.val[p] = <<<<1, 1>>, TRUE, FALSE, <<1, 1>>>>
             /\ nf = n => ret.val[p] = <<<<1, 1>>, FALSE, TRUE, <<0, 1>>>>
             /\ nt + nf = 0 => ret.val[p] = <<<<0, 1>>, FALSE, FALSE, <<1, 2>>>>

\* three samples reduced: a position with True, False and None, so that
\* coverage is 2/3 and frac_true 1/2, and a position that is None throughout
C6_Witness ==
  /\ Returned("_reduce_across_examples")
  /\ Len(args.signatures) = 3
  /\ ret.ok /\ Len(ret.val) = 2
  /\ ret.val[1] = <<<<2, 3>>, FALSE, FALSE, <<1, 2>>>>
  /\ ret.val[2] = <<<<0, 1>>, FALSE, FALSE, <<1, 2>>>>

\* C7: fixed-length _basic_signature(x) of a bool, int or list is three
\* slots in the order bool, int, list with the widths
\* _BASIC_SIGNATURE_LENGTH_BY_TYPE; the slot of x's type is the
\* variable-length _basic_signature(x), whose length is that width for
\* every x, the other slots are all None, and the total is the sum of the
\* widths.
C7_BasicSignatureSlots ==
  (Returned("_basic_signature") /\ IsSupported(args.x))
  => /\ ret.ok
     /\ IF args.fixed_length
        THEN /\ Len(ret.val) = BasicWidth
             /\ \A i \in 1..3 :
                  IF i = TypeIndex(args.x.t)
                  THEN Ok(Slot(ret.val, BasicWidths, i)) =
                         _basic_signature(args.x, FALSE)
                  ELSE AllNone(Slot(ret.val, BasicWidths, i))
        ELSE /\ Len(ret.val) = BasicWidths[TypeIndex(args.x.t)]
             /\ ~AllNone(ret.val)

\* the fixed-length signature of a non-empty list: its last slot is the
\* list's own signature, the slots of bool and int are None
C7_Witness ==
  /\ Returned("_basic_signature") /\ args.fixed_length
  /\ args.x.t = "list" /\ Len(args.x.l) = MaxListLen
  /\ ret.ok /\ Len(ret.val) = BasicWidth
  /\ ret.val[1] = None
  /\ ret.val[Len(ret.val)] # None

\* C8: fixed-length _compare(x, y) of supported objects is nine slots in
\* the order of the product of (bool, int, list) with itself, with the widths
\* _COMPARE_LENGTH_BY_TYPES; the slot of (type x, type y) is the
\* variable-length _compare(x, y), whose length is that width for all x, y,
\* the other slots are all None, and the total is constant.
C8_CompareSlots ==
  (Returned("_compare") /\ IsSupported(args.x) /\ IsSupported(args.y))
  => LET own == 3 * (TypeIndex(args.x.t) - 1) + TypeIndex(args.y.t)
     IN /\ ret.ok
        /\ IF args.fixed_length
           THEN /\ Len(ret.val) = CompareWidth
                /\ \A i \in 1..9 :
                     IF i = own
                     THEN Ok(Slot(ret.val, CompareWidths, i)) =
                            _compare(args.x, args.y, FALSE)
                     ELSE AllNone(Slot(ret.val, CompareWidths, i))
           ELSE /\ Len(ret.val) = CompareWidths[own]
                /\ \A i \in 1..Len(ret.val) : ret.val[i] # None

\* the fixed-length comparison of an int with a non-empty list: the slot of
\* (int, list) holds the comparisons, the rest is None
C8_Witness ==
  /\ Returned("_compare") /\ args.fixed_length
  /\ args.x.t = "int" /\ args.y.t = "list" /\ args.y.l # <<>>
  /\ ret.ok /\ Len(ret.val) = CompareWidth
  /\ Len(Slot(ret.val, CompareWidths, 6)) > 0
  /\ ~AllNone(Slot(ret.val, CompareWidths, 6))
  /\ AllNone(Slot(ret.val, CompareWidths, 8))

\* the same-type comparisons of x with the members of type(x) of y's
\* relevance set, then of the members of type(y) of x's relevance set with y
ClaimedCrossCompare(x, y) ==
  LET rel_y == OfType(_relevant(y).val, TypeOf(x))
      rel_x == OfType(_relevant(x).val, TypeOf(y))
  IN Flatten([i \in 1..Len(rel_y) |-> _compare_same_type(x, rel_y[i]).val])
     \o Flatten([i \in 1..Len(rel_x) |-> _compare_same_type(rel_x[i], y).val])

\* C9: variable-length _compare(x, y) of supported objects of different
\* types is the same-type comparisons of x with every member of y's
\* relevance set of x's type, followed by those of every member of x's
\* relevance set of y's type with y; for objects of the same type it is
\* _compare_same_type(x, y).
C9_CrossTypeCompare ==
  (Returned("_compare") /\ ~args.fixed_length
   /\ IsSupported(args.x) /\ IsSupported(args.y))
  => IF args.x.t = args.y.t
     THEN ret = _compare_same_type(args.x, args.y)
     ELSE ret = Ok(ClaimedCrossCompare(args.x, args.y))

\* a list compared with an int: six integer comparisons, one for each
\* integer of the list's relevance set
C9_Witness ==
  /\ Returned("_compare") /\ ~args.fixed_length
  /\ args.x.t = "list" /\ args.x.l # <<>> /\ args.y.t = "int"
  /\ ret.ok
  /\ Len(ret.val) = 6 * Len(_compare_same_type(args.y, args.y).val)
  /\ \E i \in 1..Len(ret.val) : ret.val[i] = "True"
  /\ \E i \in 1..Len(ret.val) : ret.val[i] = "False"

\* the probe tuples, counted from 0, on which the callable of example i
\* yields a sample
Successes(value, i) ==
  {j \in 0..(NumTuples(value) - 1) : Succeeds(value, i, j)}

\* C10: _run_lambda invokes every per-example callable on every tuple of
\* the product of the pooled probe values; an invocation that raises or
\* returns None contributes no sample, raises nothing and stops nothing;
\* the samples of example i are exactly the (tuple, result) pairs of the
\* invocations of callable i with a non-None result, in probe order.
C10_RunLambdaSamples ==
  Returned("_run_lambda")
  => /\ ret.ok
     /\ Len(ret.val) = args.value.num_examples
     /\ \A i \in 1..Len(ret.val) :
          LET successes == Successes(args.value, i)
          IN /\ Len(ret.val[i]) = Cardinality(successes)
             /\ \A j \in successes :
                  LET m == Cardinality({h \in successes : h <= j})
                      inputs_list ==
                        ProductTuple(inputs_to_try,
                                     args.value.num_free_variables, j)
                  IN ret.val[i][m] =
                       <<inputs_list,
                         Apply(args.value.values[i], inputs_list).val>>

\* the callable of the first example raises on every tuple, that of the
\* second returns None on some tuples and an int on others: the first
\* example has no sample, the second has its own
C10_Witness ==
  /\ Returned("_run_lambda")
  /\ args.value.values = <<"raise", "sum">>
  /\ args.value.num_free_variables = 2
  /\ ret.ok
  /\ ret.val[1] = <<>>
  /\ Len(ret.val[2]) > 0
  /\ Len(ret.val[2]) < NumTuples(args.value)

\* a is a prefix of b
IsPrefix(a, b) == Len(a) <= Len(b) /\ SubSeq(b, 1, Len(a)) = a

\* the positions two lists share
Shared(a, b) == DOMAIN a \cap DOMAIN b

\* the features of two booleans: equal, not-equal, AND, OR
BoolFeatures(a, b) == <<a <=> b, ~(a <=> b), a /\ b, a \/ b>>

\* the features of two integers: equal, less, greater, |a - b| below 2, 5, 10
\* and 100, same sign with 0 counted as non-negative
IntFeatures(a, b) ==
  LET d == IF a < b THEN b - a ELSE a - b
  IN <<a = b, a < b, b < a, d < 2, d < 5, d < 10, d < 100,
       (a < 0) <=> (b < 0)>>

\* the features of two lists: equal, equal length, longer, shorter, length
\* difference below 2, elementwise <=, >= and == over the shared positions,
\* set-equal, subset, superset
ListFeatures(a, b) ==
  LET d == IF Len(a) < Len(b) THEN Len(b) - Len(a) ELSE Len(a) - Len(b)
      set_a == {a[i] : i \in DOMAIN a}
      set_b == {b[i] : i \in DOMAIN b}
  IN <<a = b, Len(a) = Len(b), Len(a) > Len(b), Len(a) < Len(b), d < 2,
       \A i \in Shared(a, b) : a[i] <= b[i],
       \A i \in Shared(a, b) : a[i] >= b[i],
       \A i \in Shared(a, b) : a[i] = b[i],
       set_a = set_b,
       \A e \in set_a : e \in set_b,
       \A e \in set_b : e \in set_a>>

Features(x, y) ==
  IF x.t = "bool" THEN BoolFeatures(x.b, y.b)
  ELSE IF x.t = "int" THEN IntFeatures(x.n, y.n)
  ELSE ListFeatures(x.l, y.l)

\* C11: for every pair of values of the same type, bool, int or list,
\* _compare_same_type(x, y) returns the features of that type in the fixed
\* order: 4 for booleans (equal, not-equal, AND, OR), 8 for integers (equal,
\* less, greater, |x-y| < 2, < 5, < 10, < 100, same sign with 0 non-negative),
\* 11 for lists (equal, equal length, longer, shorter, |length difference| < 2,
\* elementwise <=, >=, == over the first min(len x, len y) positions,
\* set-equal, subset, superset). The elementwise-equal feature is true iff
\* one list is a prefix of the other, and 0 against 0 gives
\* [True, False, False, True, True, True, True, True].
C11_SameTypeFeatures ==
  (Returned("_compare_same_type") /\ IsSupported(args.x)
   /\ TypeOf(args.x) = TypeOf(args.y))
  => LET features == Features(args.x, args.y)
     IN /\ ret.ok
        /\ Len(ret.val) = (CASE args.x.t = "bool" -> 4
                             [] args.x.t = "int" -> 8
                             [] args.x.t = "list" -> 11)
        /\ ret.val = [i \in 1..Len(features) |-> Bit(features[i])]
        /\ args.x.t = "list"
           => (ret.val[8] = "True"
               <=> (IsPrefix(args.x.l, args.y.l)
                    \/ IsPrefix(args.y.l, args.x.l)))
        /\ (args.x = PyInt(0) /\ args.y = PyInt(0))
           => ret.val = <<"True", "False", "False", "True", "True", "True",
                          "True", "True">>

\* [1, 2, 3] against [1, 2, 3, 4]: shorter, a prefix, a subset, and every
\* elementwise feature true over the three shared positions
C11_Witness ==
  /\ Returned("_compare_same_type")
  /\ args.x = PyList(<<1, 2, 3>>) /\ args.y = PyList(<<1, 2, 3, 4>>)
  /\ ret = Ok(<<"False", "False", "False", "True", "True", "True", "True",
                "True", "False", "True", "False">>)

====
